---- MODULE Spec2Model ----
(***************************************************************************)
(* A model of parse-html-parts (src/index.ts): the template-literal        *)
(* tokenizer parseHtmlLiteral, the placeholder renderer renderToHtml and   *)
(* the placeholder finder LiteralNodesFinder with its NodeWalker.          *)
(*                                                                         *)
(* Strings are sequences of one-character strings; positions are 0-based   *)
(* as in the source, so string.charCodeAt(p) is string[p + 1].             *)
(***************************************************************************)
EXTENDS Integers, Sequences, FiniteSets, TLC

VARIABLES
  strings,              \* the argument of parseHtmlLiteral / renderToHtml
  pc,                   \* where the pipeline stands
  stringi,              \* outer loop index of parseHtmlLiteral
  pos,                  \* inner loop index of parseHtmlLiteral
  state,                \* tokenizer state
  nameStart,
  valueStart,
  attributeName,
  attributeValueParts,  \* reference (index into heap) of the open array
  heap,                 \* the string arrays allocated by parseHtmlLiteral
  parts,                \* the array parseHtmlLiteral fills and returns
  error,                \* position reported by the thrown Error, or -1
  holeStates,           \* history: tokenizer state met at each hole boundary
  secondCall,           \* what a second parseHtmlLiteral(strings) gave
  htmlString,           \* result of renderToHtml
  tree,                 \* the parsed fragment, in document order
  whatToShow,           \* LiteralNodesFinder.whatToShow
  indices,              \* LiteralNodesFinder.indices: <<>> or <<array>>
  foundNodes,           \* result of the last LiteralNodesFinder.find
  roots,                \* history: the roots given to the first and to
                        \* the last find so far
  findCalls             \* number of find calls made on the finder

parserVars == <<stringi, pos, state, nameStart, valueStart, attributeName,
                attributeValueParts, heap, parts, error, holeStates>>
secondCallVars == <<secondCall>>
finderVars ==
  <<htmlString, tree, whatToShow, indices, foundNodes, roots, findCalls>>
vars == <<strings, pc, parserVars, secondCallVars, finderVars>>

(***************************************************************************)
(* Bounds of the model.                                                    *)
(***************************************************************************)
MaxSegments == 3
MaxFindCalls == 2

(***************************************************************************)
(* const enum Code                                                         *)
(***************************************************************************)
TAB == "\t"
LF == "\n"
FF == "\f"
CR == "\r"
SPACE == " "
LT == "<"
GT == ">"
SLASH == "/"
DASH == "-"
BANG == "!"
EQ == "="
DQUOTE == "\""
SQUOTE == "'"
QUESTION == "?"
COLON == ":"

\* charCodeAt past the end of the string is NaN, which equals no code.
NaN == "NaN"

(***************************************************************************)
(* const enum State                                                        *)
(***************************************************************************)
UNKNOWN == "UNKNOWN"
DATA == "DATA"
TAG_OPEN == "TAG_OPEN"
END_TAG_OPEN == "END_TAG_OPEN"
TAG_NAME == "TAG_NAME"
BOGUS_COMMENT == "BOGUS_COMMENT"
BEFORE_ATTRIBUTE_NAME == "BEFORE_ATTRIBUTE_NAME"
AFTER_ATTRIBUTE_NAME == "AFTER_ATTRIBUTE_NAME"
ATTRIBUTE_NAME == "ATTRIBUTE_NAME"
BEFORE_ATTRIBUTE_VALUE == "BEFORE_ATTRIBUTE_VALUE"
ATTRIBUTE_VALUE_DOUBLE_QUOTED == "ATTRIBUTE_VALUE_DOUBLE_QUOTED"
ATTRIBUTE_VALUE_SINGLE_QUOTED == "ATTRIBUTE_VALUE_SINGLE_QUOTED"
ATTRIBUTE_VALUE_UNQUOTED == "ATTRIBUTE_VALUE_UNQUOTED"
AFTER_ATTRIBUTE_VALUE_QUOTED == "AFTER_ATTRIBUTE_VALUE_QUOTED"
SELF_CLOSING_START_TAG == "SELF_CLOSING_START_TAG"
COMMENT_START == "COMMENT_START"
COMMENT_START_DASH == "COMMENT_START_DASH"
COMMENT == "COMMENT"
COMMENT_LESS_THAN_SIGN == "COMMENT_LESS_THAN_SIGN"
COMMENT_LESS_THAN_SIGN_BANG == "COMMENT_LESS_THAN_SIGN_BANG"
COMMENT_LESS_THAN_SIGN_BANG_DASH == "COMMENT_LESS_THAN_SIGN_BANG_DASH"
COMMENT_LESS_THAN_SIGN_BANG_DASH_DASH == "COMMENT_LESS_THAN_SIGN_BANG_DASH_DASH"
COMMENT_END_DASH == "COMMENT_END_DASH"
COMMENT_END == "COMMENT_END"
COMMENT_END_BANG == "COMMENT_END_BANG"
MARKUP_DECLARATION_OPEN == "MARKUP_DECLARATION_OPEN"

isAsciiAlphaCode(code) ==
  code \in {"a", "b", "c", "d", "e", "f", "g", "h", "i", "j", "k", "l", "m",
            "n", "o", "p", "q", "r", "s", "t", "u", "v", "w", "x", "y", "z",
            "A", "B", "C", "D", "E", "F", "G", "H", "I", "J", "K", "L", "M",
            "N", "O", "P", "Q", "R", "S", "T", "U", "V", "W", "X", "Y", "Z"}

isSpaceCode(code) ==
  \/ code = TAB
  \/ code = LF
  \/ code = FF
  \/ code = SPACE
  \/ code = CR

(***************************************************************************)
(* String primitives of the host language.                                 *)
(***************************************************************************)
charCodeAt(string, p) ==
  IF 0 <= p /\ p < Len(string) THEN string[p + 1] ELSE NaN

\* string.slice(from, to) for 0 <= from, to: empty when from >= to.
slice(string, from, to) ==
  LET hi == IF to < Len(string) THEN to ELSE Len(string)
  IN IF from >= hi THEN <<>> ELSE SubSeq(string, from + 1, hi)

sliceFrom(string, from) == slice(string, from, Len(string))

(***************************************************************************)
(* LiteralPart                                                             *)
(***************************************************************************)
KindNode == "Node"
KindData == "Data"
KindComment == "Comment"
KindAttribute == "Attribute"

NodeInstance == [type |-> KindNode]
DataInstance == [type |-> KindData]
CommentInstance == [type |-> KindComment]
Attribute(name, valueParts, index) ==
  [type |-> KindAttribute, attributeName |-> name, valueParts |-> valueParts,
   index |-> index]

\* An array slot nothing was assigned to.
Undefined == [type |-> "undefined"]

(***************************************************************************)
(* parseHtmlLiteral: the switch of the scan loop, one execution on the     *)
(* character at pos.  The result holds the locals after the switch (the    *)
(* loop's own pos++ is applied by ScanChar) and whether quitAttribute was  *)
(* called, always with (string, pos).                                      *)
(***************************************************************************)
ScanSwitch(st, string, p, ns, vs, an) ==
  LET code == charCodeAt(string, p)
      keep == [state |-> st, pos |-> p, nameStart |-> ns, valueStart |-> vs,
               attributeName |-> an, quit |-> FALSE]
      go(s) == [keep EXCEPT !.state = s]
      re(s) == [keep EXCEPT !.state = s, !.pos = p - 1]
      quit(s) == [keep EXCEPT !.state = s, !.quit = TRUE]
  IN CASE st = DATA ->
            IF code = LT THEN go(TAG_OPEN) ELSE keep
       [] st = TAG_OPEN ->
            IF code = BANG THEN go(MARKUP_DECLARATION_OPEN)
            ELSE IF code = SLASH THEN go(END_TAG_OPEN)
            ELSE IF isAsciiAlphaCode(code) THEN re(TAG_NAME)
            ELSE IF code = QUESTION THEN re(BOGUS_COMMENT)
            ELSE re(DATA)
       [] st = END_TAG_OPEN ->
            IF isAsciiAlphaCode(code) THEN re(TAG_NAME)
            ELSE IF code = GT THEN go(DATA)
            ELSE re(BOGUS_COMMENT)
       [] st = TAG_NAME ->
            IF isSpaceCode(code) THEN go(BEFORE_ATTRIBUTE_NAME)
            ELSE IF code = SLASH THEN go(SELF_CLOSING_START_TAG)
            ELSE IF code = GT THEN go(DATA)
            ELSE keep
       [] st = BEFORE_ATTRIBUTE_NAME ->
            IF isSpaceCode(code) THEN keep
            ELSE IF code = SLASH \/ code = GT THEN re(AFTER_ATTRIBUTE_NAME)
            ELSE IF code = EQ
              THEN [keep EXCEPT !.state = ATTRIBUTE_NAME, !.nameStart = p + 1]
            ELSE [keep EXCEPT !.state = ATTRIBUTE_NAME, !.nameStart = p,
                              !.pos = p - 1]
       [] st = ATTRIBUTE_NAME ->
            IF isSpaceCode(code) \/ code = SLASH \/ code = GT
              THEN re(AFTER_ATTRIBUTE_NAME)
            ELSE IF code = EQ
              THEN [keep EXCEPT !.state = BEFORE_ATTRIBUTE_VALUE,
                                !.attributeName = slice(string, ns, p),
                                !.valueStart = p + 1]
            ELSE keep
       [] st = AFTER_ATTRIBUTE_NAME ->
            IF isSpaceCode(code) THEN keep
            ELSE IF code = SLASH THEN go(SELF_CLOSING_START_TAG)
            ELSE IF code = EQ
              THEN [keep EXCEPT !.state = BEFORE_ATTRIBUTE_VALUE,
                                !.valueStart = p + 1]
            ELSE IF code = GT THEN go(DATA)
            ELSE [keep EXCEPT !.state = ATTRIBUTE_NAME, !.nameStart = p,
                              !.pos = p - 1]
       [] st = BEFORE_ATTRIBUTE_VALUE ->
            IF isSpaceCode(code) THEN keep
            ELSE IF code = DQUOTE
              THEN [keep EXCEPT !.state = ATTRIBUTE_VALUE_DOUBLE_QUOTED,
                                !.valueStart = p + 1]
            ELSE IF code = SQUOTE
              THEN [keep EXCEPT !.state = ATTRIBUTE_VALUE_SINGLE_QUOTED,
                                !.valueStart = p + 1]
            ELSE IF code = GT THEN go(DATA)
            ELSE re(ATTRIBUTE_VALUE_UNQUOTED)
       [] st = ATTRIBUTE_VALUE_DOUBLE_QUOTED ->
            IF code = DQUOTE THEN quit(AFTER_ATTRIBUTE_VALUE_QUOTED) ELSE keep
       [] st = ATTRIBUTE_VALUE_SINGLE_QUOTED ->
            IF code = SQUOTE THEN quit(AFTER_ATTRIBUTE_VALUE_QUOTED) ELSE keep
       [] st = ATTRIBUTE_VALUE_UNQUOTED ->
            IF isSpaceCode(code) THEN quit(BEFORE_ATTRIBUTE_NAME)
            ELSE IF code = GT THEN quit(DATA)
            ELSE keep
       [] st = AFTER_ATTRIBUTE_VALUE_QUOTED ->
            IF isSpaceCode(code) THEN go(BEFORE_ATTRIBUTE_NAME)
            ELSE IF code = SLASH THEN go(SELF_CLOSING_START_TAG)
            ELSE IF code = GT THEN go(DATA)
            ELSE re(BEFORE_ATTRIBUTE_NAME)
       [] st = SELF_CLOSING_START_TAG ->
            IF code = GT THEN go(DATA) ELSE re(BEFORE_ATTRIBUTE_NAME)
       [] st = BOGUS_COMMENT ->
            IF code = GT THEN go(DATA) ELSE keep
       [] st = COMMENT_START ->
            IF code = DASH THEN go(COMMENT_START_DASH)
            ELSE IF code = GT THEN go(DATA)
            ELSE re(COMMENT)
       [] st = COMMENT_START_DASH ->
            IF code = DASH THEN go(COMMENT_END)
            ELSE IF code = GT THEN go(DATA)
            ELSE re(COMMENT)
       [] st = COMMENT ->
            IF code = LT THEN go(COMMENT_LESS_THAN_SIGN)
            ELSE IF code = DASH THEN go(COMMENT_END_DASH)
            ELSE keep
       [] st = COMMENT_LESS_THAN_SIGN ->
            IF code = BANG THEN go(COMMENT_LESS_THAN_SIGN_BANG)
            ELSE IF code # LT THEN re(COMMENT)
            ELSE keep
       [] st = COMMENT_LESS_THAN_SIGN_BANG ->
            IF code = DASH THEN go(COMMENT_LESS_THAN_SIGN_BANG_DASH)
            ELSE re(COMMENT)
       [] st = COMMENT_LESS_THAN_SIGN_BANG_DASH ->
            IF code = DASH THEN go(COMMENT_LESS_THAN_SIGN_BANG_DASH_DASH)
            ELSE re(COMMENT_END)
       [] st = COMMENT_LESS_THAN_SIGN_BANG_DASH_DASH ->
            re(COMMENT_END)
       [] st = COMMENT_END_DASH ->
            IF code = DASH THEN go(COMMENT_END) ELSE re(COMMENT)
       [] st = COMMENT_END ->
            IF code = GT THEN go(DATA)
            ELSE IF code = BANG THEN go(COMMENT_END_BANG)
            ELSE IF code # DASH THEN re(COMMENT)
            ELSE keep
       [] st = COMMENT_END_BANG ->
            IF code = DASH THEN go(COMMENT_END_DASH)
            ELSE IF code = GT THEN go(DATA)
            ELSE re(COMMENT)
       [] st = MARKUP_DECLARATION_OPEN ->
            IF code = DASH /\ charCodeAt(string, p + 1) = DASH
              THEN [keep EXCEPT !.state = COMMENT_START, !.pos = p + 1]
            ELSE re(BOGUS_COMMENT)
       [] OTHER -> go(UNKNOWN)

(***************************************************************************)
(* The arrays parseHtmlLiteral allocates.  heap[r] is the array with       *)
(* reference r: its items and whether Object.freeze was applied to it.     *)
(***************************************************************************)
NewArray == [items |-> <<>>, frozen |-> FALSE]

\* attributeValueParts.push(s); pushing onto a frozen array is a TypeError,
\* modelled as leaving the array alone.
push(h, ref, s) ==
  IF h[ref].frozen THEN h
  ELSE [h EXCEPT ![ref].items = Append(@, s)]

\* A slip in getAttributeLiteralPart: the index taken is the new length.
getAttributeLiteralPartLength(h, ref, string, vs, an) ==
  LET h2 == push(h, ref, sliceFrom(string, vs))
  IN [heap |-> h2, part |-> Attribute(an, ref, Len(h2[ref].items))]

\* getAttributeLiteralPart(string): push the text since valueStart, and
\* build the part whose index is the new length minus one.
getAttributeLiteralPart(h, ref, string, vs, an) ==
  LET h2 == push(h, ref, sliceFrom(string, vs))
  IN [heap |-> h2, part |-> Attribute(an, ref, Len(h2[ref].items) - 1)]

\* A slip in quitAttribute: Object.freeze left out.
quitAttributeUnfrozen(h, ref, string, position) ==
  IF Len(h[ref].items) > 0
    THEN [heap |-> Append(push(h, ref, slice(string, 0, position)), NewArray),
          ref |-> Len(h) + 1]
    ELSE [heap |-> h, ref |-> ref]

\* A slip in quitAttribute: the tail is pushed but no new array is started.
quitAttributeKeeping(h, ref, string, position) ==
  IF Len(h[ref].items) > 0
    THEN [heap |-> push(h, ref, slice(string, 0, position)), ref |-> ref]
    ELSE [heap |-> h, ref |-> ref]

\* quitAttribute(string, position)
quitAttribute(h, ref, string, position) ==
  IF Len(h[ref].items) > 0
    THEN LET h2 == push(h, ref, slice(string, 0, position))
         IN [heap |-> Append([h2 EXCEPT ![ref].frozen = TRUE], NewArray),
             ref |-> Len(h) + 1]
    ELSE [heap |-> h, ref |-> ref]

\* A slip in the allocation: one slot per segment instead of one per hole.
newPartsArrayPerSegment(n) == [i \in 1..(n + 1) |-> Undefined]

\* new Array<LiteralPart>(n)
newPartsArray(n) == [i \in 1..n |-> Undefined]

(***************************************************************************)
(* The switch on the state at a hole boundary (stringi < strings.length-1):*)
(* which kind of part is assigned, or "throw" for the default branch.      *)
(***************************************************************************)
\* A slip in the switch: the DATA and BEFORE_ATTRIBUTE_NAME cases swapped.
BindingKindSwapped(st) ==
  CASE st = DATA -> KindData
    [] st = BEFORE_ATTRIBUTE_NAME -> KindNode
    [] st = COMMENT -> KindComment
    [] st = BEFORE_ATTRIBUTE_VALUE -> KindAttribute
    [] st = ATTRIBUTE_VALUE_UNQUOTED -> KindAttribute
    [] st = ATTRIBUTE_VALUE_SINGLE_QUOTED -> KindAttribute
    [] st = ATTRIBUTE_VALUE_DOUBLE_QUOTED -> KindAttribute
    [] OTHER -> "throw"

BindingKind(st) ==
  CASE st = DATA -> KindNode
    [] st = BEFORE_ATTRIBUTE_NAME -> KindData
    [] st = COMMENT -> KindComment
    [] st = BEFORE_ATTRIBUTE_VALUE -> KindAttribute
    [] st = ATTRIBUTE_VALUE_UNQUOTED -> KindAttribute
    [] st = ATTRIBUTE_VALUE_SINGLE_QUOTED -> KindAttribute
    [] st = ATTRIBUTE_VALUE_DOUBLE_QUOTED -> KindAttribute
    [] OTHER -> "throw"

\* The default branch's loop: position += strings[i].length for i <= stringi.
RECURSIVE SumLengths(_, _, _)
SumLengths(strs, i, last) ==
  IF i > last THEN 0 ELSE Len(strs[i + 1]) + SumLengths(strs, i + 1, last)

\* A slip in the loop bound: i < stringi instead of i <= stringi.
UnexpectedBindingPositionBefore(strs, si) == SumLengths(strs, 0, si - 1)

UnexpectedBindingPosition(strs, si) == SumLengths(strs, 0, si)

(***************************************************************************)
(* renderToHtml                                                            *)
(***************************************************************************)
DigitChars == <<"0", "1", "2", "3", "4", "5", "6", "7", "8", "9">>

\* The decimal text of a natural number, as string concatenation gives it.
RECURSIVE NumberToString(_)
NumberToString(n) ==
  IF n < 10 THEN <<DigitChars[n + 1]>>
  ELSE NumberToString(n \div 10) \o <<DigitChars[(n % 10) + 1]>>

\* A slip in the Data branch: the "=0" left out.
PlaceholderBareName(part, i) ==
  IF part.type = KindAttribute THEN <<":", ":">>
  ELSE IF part.type = KindData THEN <<":", ":">> \o NumberToString(i)
  ELSE IF part.type = KindNode
    THEN <<"<", "!", "-", "-", ":", ":">> \o NumberToString(i)
         \o <<"-", "-", ">">>
  ELSE <<":", ":", "c", "o", "m", "m", "e", "n", "t", "_">>
       \o NumberToString(i)

\* What the loop body appends after strings[i] for parts[i].
Placeholder(part, i) ==
  IF part.type = KindAttribute THEN <<":", ":">>
  ELSE IF part.type = KindData
    THEN <<":", ":">> \o NumberToString(i) \o <<"=", "0">>
  ELSE IF part.type = KindNode
    THEN <<"<", "!", "-", "-", ":", ":">> \o NumberToString(i)
         \o <<"-", "-", ">">>
  ELSE <<":", ":", "c", "o", "m", "m", "e", "n", "t", "_">>
       \o NumberToString(i)

RECURSIVE RenderLoop(_, _, _, _)
RenderLoop(strs, ps, i, acc) ==
  IF i >= Len(ps) THEN acc
  ELSE RenderLoop(strs, ps, i + 1,
                  acc \o strs[i + 1] \o Placeholder(ps[i + 1], i))

renderToHtml(strs, ps) == RenderLoop(strs, ps, 0, <<>>) \o strs[Len(strs)]

(***************************************************************************)
(* The fragment parser the rendered markup is handed to                    *)
(* (document.createRange().createContextualFragment).  It is not part of   *)
(* the repository: it is the HTML tokenizer for data, tags, attributes and *)
(* comments, without character references and raw-text elements.  The      *)
(* result is the fragment's elements and comments in document order; text  *)
(* nodes are left out, no walker the finder builds shows them.  Every      *)
(* attribute records where its value lies in the markup: [from, to).       *)
(***************************************************************************)
ELEMENT_NODE == 1
COMMENT_NODE == 8

HtmlStart ==
  [st |-> DATA, nodes |-> <<>>, tagName |-> <<>>, tagEnd |-> FALSE,
   attrs |-> <<>>, open |-> FALSE, an |-> <<>>, av |-> <<>>, af |-> -1,
   data |-> <<>>]

\* The attribute under construction joins the tag unless its name is taken.
HtmlCommit(k) ==
  IF k.open /\ \A j \in 1..Len(k.attrs) : k.attrs[j].name # k.an
    THEN [k EXCEPT !.open = FALSE,
                   !.attrs = Append(@, [name |-> k.an, value |-> k.av,
                                        from |-> k.af,
                                        to |-> k.af + Len(k.av)])]
    ELSE [k EXCEPT !.open = FALSE]

HtmlEmitTag(k) ==
  LET k2 == HtmlCommit(k)
  IN IF k2.tagEnd THEN [k2 EXCEPT !.st = DATA]
     ELSE [k2 EXCEPT !.st = DATA,
                     !.nodes = Append(@, [nodeType |-> ELEMENT_NODE,
                                          name |-> k2.tagName,
                                          data |-> <<>>,
                                          attributes |-> k2.attrs])]

HtmlEmitComment(k) ==
  [k EXCEPT !.st = DATA,
            !.nodes = Append(@, [nodeType |-> COMMENT_NODE, name |-> <<>>,
                                 data |-> k.data, attributes |-> <<>>])]

HtmlStep(k, html, p) ==
  LET c == html[p + 1]
      to(s) == [k |-> [k EXCEPT !.st = s], adv |-> 1]
      re(s) == [k |-> [k EXCEPT !.st = s], adv |-> 0]
      with(k2) == [k |-> k2, adv |-> 1]
      again(k2) == [k |-> k2, adv |-> 0]
      newTag(isEnd) == [k EXCEPT !.st = TAG_NAME, !.tagName = <<>>,
                                 !.tagEnd = isEnd, !.attrs = <<>>,
                                 !.open = FALSE]
      newAttr(name) == [HtmlCommit(k) EXCEPT !.st = ATTRIBUTE_NAME,
                                             !.open = TRUE, !.an = name,
                                             !.av = <<>>, !.af = -1]
      newComment(s) == [k EXCEPT !.st = s, !.data = <<>>]
      more(s, text) == [k EXCEPT !.st = s, !.data = @ \o text]
  IN CASE k.st = DATA ->
            IF c = LT THEN to(TAG_OPEN) ELSE to(DATA)
       [] k.st = TAG_OPEN ->
            IF c = BANG THEN to(MARKUP_DECLARATION_OPEN)
            ELSE IF c = SLASH THEN to(END_TAG_OPEN)
            ELSE IF isAsciiAlphaCode(c) THEN again(newTag(FALSE))
            ELSE IF c = QUESTION THEN again(newComment(BOGUS_COMMENT))
            ELSE re(DATA)
       [] k.st = END_TAG_OPEN ->
            IF isAsciiAlphaCode(c) THEN again(newTag(TRUE))
            ELSE IF c = GT THEN to(DATA)
            ELSE again(newComment(BOGUS_COMMENT))
       [] k.st = TAG_NAME ->
            IF isSpaceCode(c) THEN to(BEFORE_ATTRIBUTE_NAME)
            ELSE IF c = SLASH THEN to(SELF_CLOSING_START_TAG)
            ELSE IF c = GT THEN with(HtmlEmitTag(k))
            ELSE with([k EXCEPT !.tagName = Append(@, c)])
       [] k.st = BEFORE_ATTRIBUTE_NAME ->
            IF isSpaceCode(c) THEN to(BEFORE_ATTRIBUTE_NAME)
            ELSE IF c = SLASH \/ c = GT THEN re(AFTER_ATTRIBUTE_NAME)
            ELSE IF c = EQ THEN with(newAttr(<<c>>))
            ELSE again(newAttr(<<>>))
       [] k.st = ATTRIBUTE_NAME ->
            IF isSpaceCode(c) \/ c = SLASH \/ c = GT
              THEN re(AFTER_ATTRIBUTE_NAME)
            ELSE IF c = EQ THEN to(BEFORE_ATTRIBUTE_VALUE)
            ELSE with([k EXCEPT !.an = Append(@, c)])
       [] k.st = AFTER_ATTRIBUTE_NAME ->
            IF isSpaceCode(c) THEN to(AFTER_ATTRIBUTE_NAME)
            ELSE IF c = SLASH THEN to(SELF_CLOSING_START_TAG)
            ELSE IF c = EQ THEN to(BEFORE_ATTRIBUTE_VALUE)
            ELSE IF c = GT THEN with(HtmlEmitTag(k))
            ELSE again(newAttr(<<>>))
       [] k.st = BEFORE_ATTRIBUTE_VALUE ->
            IF isSpaceCode(c) THEN to(BEFORE_ATTRIBUTE_VALUE)
            ELSE IF c = DQUOTE
              THEN with([k EXCEPT !.st = ATTRIBUTE_VALUE_DOUBLE_QUOTED,
                                  !.af = p + 1])
            ELSE IF c = SQUOTE
              THEN with([k EXCEPT !.st = ATTRIBUTE_VALUE_SINGLE_QUOTED,
                                  !.af = p + 1])
            ELSE IF c = GT THEN with(HtmlEmitTag(k))
            ELSE again([k EXCEPT !.st = ATTRIBUTE_VALUE_UNQUOTED, !.af = p])
       [] k.st = ATTRIBUTE_VALUE_DOUBLE_QUOTED ->
            IF c = DQUOTE THEN to(AFTER_ATTRIBUTE_VALUE_QUOTED)
            ELSE with([k EXCEPT !.av = Append(@, c)])
       [] k.st = ATTRIBUTE_VALUE_SINGLE_QUOTED ->
            IF c = SQUOTE THEN to(AFTER_ATTRIBUTE_VALUE_QUOTED)
            ELSE with([k EXCEPT !.av = Append(@, c)])
       [] k.st = ATTRIBUTE_VALUE_UNQUOTED ->
            IF isSpaceCode(c) THEN to(BEFORE_ATTRIBUTE_NAME)
            ELSE IF c = GT THEN with(HtmlEmitTag(k))
            ELSE with([k EXCEPT !.av = Append(@, c)])
       [] k.st = AFTER_ATTRIBUTE_VALUE_QUOTED ->
            IF isSpaceCode(c) THEN to(BEFORE_ATTRIBUTE_NAME)
            ELSE IF c = SLASH THEN to(SELF_CLOSING_START_TAG)
            ELSE IF c = GT THEN with(HtmlEmitTag(k))
            ELSE re(BEFORE_ATTRIBUTE_NAME)
       [] k.st = SELF_CLOSING_START_TAG ->
            IF c = GT THEN with(HtmlEmitTag(k))
            ELSE re(BEFORE_ATTRIBUTE_NAME)
       [] k.st = BOGUS_COMMENT ->
            IF c = GT THEN with(HtmlEmitComment(k))
            ELSE with(more(BOGUS_COMMENT, <<c>>))
       [] k.st = MARKUP_DECLARATION_OPEN ->
            IF c = DASH /\ charCodeAt(html, p + 1) = DASH
              THEN [k |-> newComment(COMMENT_START), adv |-> 2]
            ELSE again(newComment(BOGUS_COMMENT))
       [] k.st = COMMENT_START ->
            IF c = DASH THEN to(COMMENT_START_DASH)
            ELSE IF c = GT THEN with(HtmlEmitComment(k))
            ELSE re(COMMENT)
       [] k.st = COMMENT_START_DASH ->
            IF c = DASH THEN to(COMMENT_END)
            ELSE IF c = GT THEN with(HtmlEmitComment(k))
            ELSE again(more(COMMENT, <<DASH>>))
       [] k.st = COMMENT ->
            IF c = LT THEN with(more(COMMENT_LESS_THAN_SIGN, <<c>>))
            ELSE IF c = DASH THEN to(COMMENT_END_DASH)
            ELSE with(more(COMMENT, <<c>>))
       [] k.st = COMMENT_LESS_THAN_SIGN ->
            IF c = BANG THEN with(more(COMMENT_LESS_THAN_SIGN_BANG, <<c>>))
            ELSE IF c = LT THEN with(more(COMMENT_LESS_THAN_SIGN, <<c>>))
            ELSE re(COMMENT)
       [] k.st = COMMENT_LESS_THAN_SIGN_BANG ->
            IF c = DASH THEN to(COMMENT_LESS_THAN_SIGN_BANG_DASH)
            ELSE re(COMMENT)
       [] k.st = COMMENT_LESS_THAN_SIGN_BANG_DASH ->
            IF c = DASH THEN to(COMMENT_LESS_THAN_SIGN_BANG_DASH_DASH)
            ELSE re(COMMENT_END_DASH)
       [] k.st = COMMENT_LESS_THAN_SIGN_BANG_DASH_DASH ->
            re(COMMENT_END)
       [] k.st = COMMENT_END_DASH ->
            IF c = DASH THEN to(COMMENT_END)
            ELSE again(more(COMMENT, <<DASH>>))
       [] k.st = COMMENT_END ->
            IF c = GT THEN with(HtmlEmitComment(k))
            ELSE IF c = BANG THEN to(COMMENT_END_BANG)
            ELSE IF c = DASH THEN with(more(COMMENT_END, <<DASH>>))
            ELSE again(more(COMMENT, <<DASH, DASH>>))
       [] k.st = COMMENT_END_BANG ->
            IF c = DASH THEN with(more(COMMENT_END_DASH, <<DASH, DASH, BANG>>))
            ELSE IF c = GT THEN with(HtmlEmitComment(k))
            ELSE again(more(COMMENT, <<DASH, DASH, BANG>>))
       [] OTHER -> to(DATA)

HtmlCommentStates ==
  {BOGUS_COMMENT, COMMENT_START, COMMENT_START_DASH, COMMENT,
   COMMENT_LESS_THAN_SIGN, COMMENT_LESS_THAN_SIGN_BANG,
   COMMENT_LESS_THAN_SIGN_BANG_DASH, COMMENT_LESS_THAN_SIGN_BANG_DASH_DASH,
   COMMENT_END_DASH, COMMENT_END, COMMENT_END_BANG}

\* End of input: an open comment is emitted, an open tag is dropped.
RECURSIVE HtmlLoop(_, _, _)
HtmlLoop(k, html, p) ==
  IF p >= Len(html)
    THEN IF k.st \in HtmlCommentStates THEN HtmlEmitComment(k).nodes
         ELSE k.nodes
    ELSE LET r == HtmlStep(k, html, p)
         IN HtmlLoop(r.k, html, p + r.adv)

createContextualFragment(html) == HtmlLoop(HtmlStart, html, 0)

(***************************************************************************)
(* The tree and its TreeWalker.  A tree is the sequence of its elements    *)
(* and comments in document order; position 0 is the root (a document      *)
(* fragment, neither comment nor element), where a new walker stands.      *)
(* An object of the tree is a comment [node |-> n, attr |-> -1] or the     *)
(* attribute with 0-based index j of element n, [node |-> n, attr |-> j].  *)
(***************************************************************************)
SHOW_ELEMENT == 1
SHOW_COMMENT == 128

NotFound == [node |-> 0, attr |-> -1]
CommentObject(n) == [node |-> n, attr |-> -1]
AttrObject(n, j) == [node |-> n, attr |-> j]

Shown(node, show) ==
  \/ node.nodeType = COMMENT_NODE /\ (show \div SHOW_COMMENT) % 2 = 1
  \/ node.nodeType = ELEMENT_NODE /\ (show \div SHOW_ELEMENT) % 2 = 1

\* treeWalker.nextNode(): the next shown node after cur, or 0 for null
\* (currentNode then stays where it is).
nextNode(t, show, cur) ==
  LET after == {n \in (cur + 1)..Len(t) : Shown(t[n], show)}
  IN IF after = {} THEN 0
     ELSE CHOOSE n \in after : \A m \in after : n <= m

\* The first occurrence test of String.prototype.includes.
includes(text, what) ==
  \E from \in 0..(Len(text) - Len(what)) :
    slice(text, from, from + Len(what)) = what

RECURSIVE join(_, _)
join(items, sep) ==
  IF Len(items) = 0 THEN <<>>
  ELSE IF Len(items) = 1 THEN items[1]
  ELSE items[1] \o sep \o join(Tail(items), sep)

(***************************************************************************)
(* The callbacks handed to the walker.  calls is the number of times the   *)
(* callback ran before: every closure of find counts its runs              *)
(* (currentIndex++, or n-- for the counting ones).                         *)
(***************************************************************************)
DataIs(text) == [test |-> "data", arg |-> text, n |-> 0]
DataIncludes(text) == [test |-> "includes", arg |-> text, n |-> 0]
NameIs(text) == [test |-> "name", arg |-> text, n |-> 0]
ValueIs(text) == [test |-> "value", arg |-> text, n |-> 0]
CountDown(n) == [test |-> "count", arg |-> <<>>, n |-> n]

stopIfComment(stopIf, comment, calls) ==
  CASE stopIf.test = "data" -> comment.data = stopIf.arg
    [] stopIf.test = "includes" -> includes(comment.data, stopIf.arg)
    [] OTHER -> stopIf.n - calls = 0

stopIfAttr(stopIf, attr, calls) ==
  CASE stopIf.test = "name" -> attr.name = stopIf.arg
    [] stopIf.test = "value" -> attr.value = stopIf.arg
    [] OTHER -> stopIf.n - calls = 0

(***************************************************************************)
(* NodeWalker: w.cur is treeWalker.currentNode, w.hint attributeIndexHint. *)
(* Both skips return the walker after the call, the object found (or       *)
(* NotFound for undefined) and the number of callback runs so far.         *)
(***************************************************************************)
NewWalker == [cur |-> 0, hint |-> 0]

RECURSIVE skipUntilComment(_, _, _, _, _)
skipUntilComment(t, show, w, stopIf, calls) ==
  LET isComment == w.cur > 0 /\ t[w.cur].nodeType = COMMENT_NODE
      calls2 == IF isComment THEN calls + 1 ELSE calls
      nx == nextNode(t, show, w.cur)
  IN IF isComment /\ stopIfComment(stopIf, t[w.cur], calls)
       THEN [w |-> w, node |-> CommentObject(w.cur), calls |-> calls2]
     ELSE IF nx = 0
       THEN [w |-> w, node |-> NotFound, calls |-> calls2]
     ELSE skipUntilComment(t, show, [w EXCEPT !.cur = nx], stopIf,
                           calls2)

\* The inner loop over attributes[i], i from the hint: the index where the
\* callback returned true (or -1) and the number of callback runs so far.
RECURSIVE scanAttributes(_, _, _, _)
scanAttributes(attributes, i, stopIf, calls) ==
  IF i >= Len(attributes) THEN [at |-> -1, calls |-> calls]
  ELSE IF stopIfAttr(stopIf, attributes[i + 1], calls)
    THEN [at |-> i, calls |-> calls + 1]
  ELSE scanAttributes(attributes, i + 1, stopIf, calls + 1)

RECURSIVE skipUntilAttribute(_, _, _, _, _)
skipUntilAttribute(t, show, w, stopIf, calls) ==
  LET isElement == w.cur > 0 /\ t[w.cur].nodeType = ELEMENT_NODE
      r == IF isElement
             THEN scanAttributes(t[w.cur].attributes, w.hint, stopIf, calls)
             ELSE [at |-> -1, calls |-> calls]
      nx == nextNode(t, show, w.cur)
  IN IF r.at >= 0
       THEN [w |-> [w EXCEPT !.hint = r.at], node |-> AttrObject(w.cur, r.at),
             calls |-> r.calls]
     ELSE IF nx = 0
       THEN [w |-> w, node |-> NotFound, calls |-> r.calls]
     ELSE skipUntilAttribute(t, show, [cur |-> nx, hint |-> 0], stopIf,
                             r.calls)

skipComments(t, show, w, n) ==
  skipUntilComment(t, show, w, CountDown(n), 0)

skipAttributes(t, show, w, n) ==
  skipUntilAttribute(t, show, w, CountDown(n), 0)

(***************************************************************************)
(* LiteralNodesFinder                                                      *)
(***************************************************************************)
\* The constructor's loop: whatToShow |= 128 or |= 1 for each part.
RECURSIVE WhatToShowLoop(_, _, _)
WhatToShowLoop(ps, i, acc) ==
  IF i >= Len(ps) THEN acc
  ELSE LET isComment == ps[i + 1].type \in {KindComment, KindNode}
           bit == IF isComment THEN SHOW_COMMENT ELSE SHOW_ELEMENT
           has == (acc \div bit) % 2 = 1
       IN WhatToShowLoop(ps, i + 1, IF has THEN acc ELSE acc + bit)

whatToShowOf(ps) == WhatToShowLoop(ps, 0, 0)

\* What the uncached loop searches for part i, for a part that searches.
ExpectedOf(ps, h, i) ==
  LET part == ps[i + 1]
  IN IF part.type = KindNode
       THEN DataIs(<<":", ":">> \o NumberToString(i))
     ELSE IF part.type = KindComment
       THEN DataIncludes(<<":", ":", "c", "o", "m", "m", "e", "n", "t", "_">>
                         \o NumberToString(i))
     ELSE IF part.type = KindData
       THEN NameIs(<<":", ":">> \o NumberToString(i))
     ELSE ValueIs(join(h[part.valueParts].items, <<":", ":">>))

\* A slip in the uncached loop: the count is stored without the decrement.
RECURSIVE findUncachedCountingMatch(_, _, _, _, _, _, _, _, _)
findUncachedCountingMatch(ps, h, t, show, i, w, currentIndex, f, ix) ==
  IF i >= Len(ps) THEN [foundNodes |-> f, indices |-> ix]
  ELSE
    LET part == ps[i + 1]
        isComment == part.type \in {KindNode, KindComment}
        reuse == part.type = KindAttribute /\ part.index > 0
        r == IF isComment
               THEN skipUntilComment(t, show, w, ExpectedOf(ps, h, i), 0)
               ELSE skipUntilAttribute(t, show, w, ExpectedOf(ps, h, i),
                                       0)
        counted == currentIndex + r.calls
    IN IF reuse
         THEN findUncachedCountingMatch(ps, h, t, show, i + 1, w,
                           currentIndex,
                           Append(f, IF i > 0 THEN f[i] ELSE NotFound),
                           Append(ix, IF i > 0 THEN ix[i] ELSE 0))
         ELSE findUncachedCountingMatch(ps, h, t, show, i + 1, r.w, counted,
                           Append(f, r.node), Append(ix, counted))

\* The uncached loop of find from part i on: f is foundNodes, ix is indices,
\* currentIndex the shared counter.
RECURSIVE findUncached(_, _, _, _, _, _, _, _, _)
findUncached(ps, h, t, show, i, w, currentIndex, f, ix) ==
  IF i >= Len(ps) THEN [foundNodes |-> f, indices |-> ix]
  ELSE
    LET part == ps[i + 1]
        isComment == part.type \in {KindNode, KindComment}
        reuse == part.type = KindAttribute /\ part.index > 0
        r == IF isComment
               THEN skipUntilComment(t, show, w, ExpectedOf(ps, h, i), 0)
               ELSE skipUntilAttribute(t, show, w, ExpectedOf(ps, h, i),
                                       0)
        counted == currentIndex + r.calls - 1
    IN IF reuse
         THEN findUncached(ps, h, t, show, i + 1, w, currentIndex,
                           Append(f, IF i > 0 THEN f[i] ELSE NotFound),
                           Append(ix, IF i > 0 THEN ix[i] ELSE 0))
         ELSE findUncached(ps, h, t, show, i + 1, r.w, counted,
                           Append(f, r.node), Append(ix, counted))

\* A slip in the cached loop: it stops at the first part not found.
RECURSIVE findCachedStopping(_, _, _, _, _, _, _, _)
findCachedStopping(ps, t, show, ix, i, w, currentIndex, f) ==
  IF i >= Len(ix) THEN f
  ELSE
    LET nextIndex == ix[i + 1]
        isComment == ps[i + 1].type \in {KindNode, KindComment}
        r == IF isComment
               THEN skipComments(t, show, w, nextIndex - currentIndex)
               ELSE skipAttributes(t, show, w, nextIndex - currentIndex)
    IN IF r.node = NotFound THEN f
       ELSE findCachedStopping(ps, t, show, ix, i + 1, r.w, nextIndex,
                               Append(f, r.node))

\* A slip in the cached loop: the comment of a Node part is looked up by
\* its data, as on the first call.
RECURSIVE findCachedByData(_, _, _, _, _, _, _, _)
findCachedByData(ps, t, show, ix, i, w, currentIndex, f) ==
  IF i >= Len(ix) THEN f
  ELSE
    LET nextIndex == ix[i + 1]
        isComment == ps[i + 1].type \in {KindNode, KindComment}
        r == IF ps[i + 1].type = KindNode
               THEN skipUntilComment(t, show, w, ExpectedOf(ps, <<>>, i), 0)
             ELSE IF isComment
               THEN skipComments(t, show, w, nextIndex - currentIndex)
               ELSE skipAttributes(t, show, w, nextIndex - currentIndex)
    IN findCachedByData(ps, t, show, ix, i + 1, r.w, nextIndex,
                        Append(f, r.node))

\* The cached loop of find from index i on.
RECURSIVE findCached(_, _, _, _, _, _, _, _)
findCached(ps, t, show, ix, i, w, currentIndex, f) ==
  IF i >= Len(ix) THEN f
  ELSE
    LET nextIndex == ix[i + 1]
        isComment == ps[i + 1].type \in {KindNode, KindComment}
        r == IF isComment
               THEN skipComments(t, show, w, nextIndex - currentIndex)
               ELSE skipAttributes(t, show, w, nextIndex - currentIndex)
    IN findCached(ps, t, show, ix, i + 1, r.w, nextIndex,
                  Append(f, r.node))

\* A slip in find: the content-matching pass runs, and stores its counts,
\* on every call.
findRefreshing(ps, h, show, cache, t) ==
  LET r == findUncached(ps, h, t, show, 0, NewWalker, 0, <<>>, <<>>)
  IN [foundNodes |-> r.foundNodes, indices |-> <<r.indices>>]

\* find(root) of a finder whose indices field is cache (<<>> for undefined,
\* <<ix>> for the array ix): the array returned and the field afterwards.
find(ps, h, show, cache, t) ==
  IF cache # <<>>
    THEN [foundNodes |-> findCached(ps, t, show, cache[1], 0, NewWalker,
                                    0, <<>>),
          indices |-> cache]
    ELSE LET r == findUncached(ps, h, t, show, 0, NewWalker, 0, <<>>,
                               <<>>)
         IN [foundNodes |-> r.foundNodes, indices |-> <<r.indices>>]

(***************************************************************************)
(* parseHtmlLiteral as one call.  l holds the locals of the call, the      *)
(* loop indices and the parts array; the result says whether the call      *)
(* threw, the position in the message, the parts and the arrays.           *)
(***************************************************************************)
\* A slip in the declarations: attributeName declared outside the function,
\* so that a call starts with the name the call before left.
LocalsWithNameOutside(previous) ==
  [state |-> DATA, nameStart |-> 0, valueStart |-> 0,
   attributeName |-> previous.attributeName,
   attributeValueParts |-> 1, heap |-> <<NewArray>>]

\* The locals at the start of a call; previous, what the call before left
\* in its own locals, has no part in them.
Locals(previous) ==
  [state |-> DATA, nameStart |-> 0, valueStart |-> 0, attributeName |-> <<>>,
   attributeValueParts |-> 1, heap |-> <<NewArray>>]

RECURSIVE parseLoop(_, _)
parseLoop(strs, l) ==
  LET string == strs[l.stringi + 1]
  IN IF l.pos < Len(string)
       THEN LET r == ScanSwitch(l.state, string, l.pos, l.nameStart,
                                l.valueStart, l.attributeName)
                q == IF r.quit
                       THEN quitAttribute(l.heap, l.attributeValueParts,
                                          string, l.pos)
                       ELSE [heap |-> l.heap, ref |-> l.attributeValueParts]
            IN parseLoop(strs,
                 [l EXCEPT !.state = r.state, !.pos = r.pos + 1,
                           !.nameStart = r.nameStart,
                           !.valueStart = r.valueStart,
                           !.attributeName = r.attributeName,
                           !.heap = q.heap,
                           !.attributeValueParts = q.ref])
     ELSE IF l.stringi < Len(strs) - 1
       THEN LET kind == BindingKind(l.state)
                g == getAttributeLiteralPart(l.heap, l.attributeValueParts,
                                             string, l.valueStart,
                                             l.attributeName)
            IN IF kind = "throw"
                 THEN [threw |-> TRUE,
                       error |-> UnexpectedBindingPosition(strs, l.stringi),
                       parts |-> l.parts, heap |-> l.heap]
                 ELSE parseLoop(strs,
                        [l EXCEPT
                           !.parts[l.stringi + 1] =
                              CASE kind = KindNode -> NodeInstance
                                [] kind = KindData -> DataInstance
                                [] kind = KindComment -> CommentInstance
                                [] OTHER -> g.part,
                           !.heap = IF kind = KindAttribute
                                      THEN g.heap ELSE l.heap,
                           !.state = IF l.state = BEFORE_ATTRIBUTE_VALUE
                                       THEN ATTRIBUTE_VALUE_UNQUOTED
                                       ELSE l.state,
                           !.stringi = l.stringi + 1,
                           !.valueStart = 0,
                           !.pos = 0])
     ELSE [threw |-> FALSE, error |-> -1, parts |-> l.parts,
           heap |-> [l.heap EXCEPT ![l.attributeValueParts].frozen = TRUE]]

parseHtmlLiteral(strs, previous) ==
  LET l == Locals(previous)
  IN parseLoop(strs,
       [state |-> l.state, nameStart |-> l.nameStart,
        valueStart |-> l.valueStart, attributeName |-> l.attributeName,
        attributeValueParts |-> l.attributeValueParts, heap |-> l.heap,
        parts |-> newPartsArray(Len(strs) - 1), stringi |-> 0, pos |-> 0])

\* A result with every valueParts reference replaced by the array it names,
\* which is what a structural comparison of two results looks at.
Structure(threw, position, ps, h) ==
  [threw |-> threw,
   error |-> position,
   parts |-> [i \in 1..Len(ps) |->
                IF ps[i].type = KindAttribute
                  THEN [ps[i] EXCEPT !.valueParts = h[ps[i].valueParts]]
                  ELSE ps[i]]]

NoCall == <<>>

(***************************************************************************)
(* The templates checked: every sequence of 1..MaxSegments segments drawn  *)
(* from Segments.  The segments are chosen so that holes fall in text, in  *)
(* attribute lists, in quoted and unquoted attribute values, in comments   *)
(* and in places where no binding is allowed.                              *)
(***************************************************************************)
Segments ==
  { <<>>,
    <<" ">>,
    <<"<", "a", " ">>,
    <<"<", "a", " ", "b", "=">>,
    <<"<", "a", " ", "d", "=", "\"", "x", "\"", " ", "b", "=", "\"">>,
    <<"\"", " ", "c", "=", "'">>,
    <<"'", ">">>,
    <<"<", "a", " ", "b", " ", "=">>,
    <<"<", "a", " ", "b", "=", " ">>,
    <<"<", "!", "-", "-">>,
    <<"<", "!", "-", "-", " ">>,
    <<" ", "-", "-", ">">>,
    <<"<", "/", "a", ">", "<", "?", "x", ">", "<", "b", "/", ">", "<">> }

Templates == UNION { [1..n -> Segments] : n \in 1..MaxSegments }

\* The roots a caller hands to find: the fragment parsed from the rendered
\* markup, a deep clone of it (same nodes, other objects), and a tree that
\* was not made from the finder's parts: <!--x--><a d="x"></a>.
Fragment == "fragment"
Clone == "clone"
Foreign == "foreign"
Roots == {Fragment, Clone, Foreign}

ForeignTree ==
  createContextualFragment(
    <<"<", "!", "-", "-", "x", "-", "-", ">",
      "<", "a", " ", "d", "=", "\"", "x", "\"", ">">>)

NoTree == <<>>
NoResult == <<>>
NoIndices == <<>>

Init ==
  /\ strings \in Templates
  /\ pc = "scan"
  /\ parts = newPartsArray(Len(strings) - 1)
  /\ state = DATA
  /\ nameStart = 0
  /\ valueStart = 0
  /\ attributeName = <<>>
  /\ heap = <<NewArray>>
  /\ attributeValueParts = 1
  /\ stringi = 0
  /\ pos = 0
  /\ error = -1
  /\ holeStates = <<>>
  /\ secondCall = NoCall
  /\ htmlString = <<>>
  /\ tree = NoTree
  /\ whatToShow = 0
  /\ indices = NoIndices
  /\ foundNodes = NoResult
  /\ roots = <<>>
  /\ findCalls = 0

(***************************************************************************)
(* A slip in the inner loop: the loop's own pos++ is left out.             *)
(***************************************************************************)
ScanCharWithoutIncrement ==
  /\ pc = "scan"
  /\ pos < Len(strings[stringi + 1])
  /\ LET string == strings[stringi + 1]
         r == ScanSwitch(state, string, pos, nameStart, valueStart,
                         attributeName)
         q == IF r.quit
                THEN quitAttribute(heap, attributeValueParts, string, pos)
                ELSE [heap |-> heap, ref |-> attributeValueParts]
     IN /\ state' = r.state
        /\ pos' = r.pos
        /\ nameStart' = r.nameStart
        /\ valueStart' = r.valueStart
        /\ attributeName' = r.attributeName
        /\ heap' = q.heap
        /\ attributeValueParts' = q.ref
  /\ UNCHANGED <<strings, pc, stringi, parts, error, holeStates, secondCall,
                 finderVars>>

(***************************************************************************)
(* One iteration of the inner loop of parseHtmlLiteral: the switch on the  *)
(* character at pos, then the loop's pos++.                                *)
(***************************************************************************)
ScanChar ==
  /\ pc = "scan"
  /\ pos < Len(strings[stringi + 1])
  /\ LET string == strings[stringi + 1]
         r == ScanSwitch(state, string, pos, nameStart, valueStart,
                         attributeName)
         q == IF r.quit
                THEN quitAttribute(heap, attributeValueParts, string, pos)
                ELSE [heap |-> heap, ref |-> attributeValueParts]
     IN /\ state' = r.state
        /\ pos' = r.pos + 1
        /\ nameStart' = r.nameStart
        /\ valueStart' = r.valueStart
        /\ attributeName' = r.attributeName
        /\ heap' = q.heap
        /\ attributeValueParts' = q.ref
  /\ UNCHANGED <<strings, pc, stringi, parts, error, holeStates, secondCall,
                 finderVars>>

(***************************************************************************)
(* A slip at the hole boundary: the state is left as it is after a hole    *)
(* met in the BEFORE_ATTRIBUTE_VALUE state.                                *)
(***************************************************************************)
HoleBoundaryKeepingState ==
  /\ pc = "scan"
  /\ ~(pos < Len(strings[stringi + 1]))
  /\ stringi < Len(strings) - 1
  /\ holeStates' = Append(holeStates, state)
  /\ LET string == strings[stringi + 1]
         kind == BindingKind(state)
         g == getAttributeLiteralPart(heap, attributeValueParts, string,
                                      valueStart, attributeName)
     IN IF kind = "throw"
          THEN /\ pc' = "threw"
               /\ error' = UnexpectedBindingPosition(strings, stringi)
               /\ UNCHANGED <<stringi, pos, state, valueStart, heap, parts>>
          ELSE /\ parts' = [parts EXCEPT ![stringi + 1] =
                              CASE kind = KindNode -> NodeInstance
                                [] kind = KindData -> DataInstance
                                [] kind = KindComment -> CommentInstance
                                [] OTHER -> g.part]
               /\ heap' = IF kind = KindAttribute THEN g.heap ELSE heap
               /\ state' = state
               /\ stringi' = stringi + 1
               /\ valueStart' = 0
               /\ pos' = 0
               /\ UNCHANGED <<pc, error>>
  /\ UNCHANGED <<strings, nameStart, attributeName, attributeValueParts,
                 secondCall, finderVars>>

(***************************************************************************)
(* A slip at the hole boundary: after a hole met in the                    *)
(* BEFORE_ATTRIBUTE_VALUE state the state is set to a value the scan       *)
(* switch has no case for.                                                 *)
(***************************************************************************)
HoleBoundaryToUnlistedState ==
  /\ pc = "scan"
  /\ ~(pos < Len(strings[stringi + 1]))
  /\ stringi < Len(strings) - 1
  /\ holeStates' = Append(holeStates, state)
  /\ LET string == strings[stringi + 1]
         kind == BindingKind(state)
         g == getAttributeLiteralPart(heap, attributeValueParts, string,
                                      valueStart, attributeName)
     IN IF kind = "throw"
          THEN /\ pc' = "threw"
               /\ error' = UnexpectedBindingPosition(strings, stringi)
               /\ UNCHANGED <<stringi, pos, state, valueStart, heap, parts>>
          ELSE /\ parts' = [parts EXCEPT ![stringi + 1] =
                              CASE kind = KindNode -> NodeInstance
                                [] kind = KindData -> DataInstance
                                [] kind = KindComment -> CommentInstance
                                [] OTHER -> g.part]
               /\ heap' = IF kind = KindAttribute THEN g.heap ELSE heap
               /\ state' = IF state = BEFORE_ATTRIBUTE_VALUE
                             THEN UNKNOWN ELSE state
               /\ stringi' = stringi + 1
               /\ valueStart' = 0
               /\ pos' = 0
               /\ UNCHANGED <<pc, error>>
  /\ UNCHANGED <<strings, nameStart, attributeName, attributeValueParts,
                 secondCall, finderVars>>

(***************************************************************************)
(* The end of segment stringi when another segment follows: the switch on  *)
(* the state that assigns parts[stringi] or throws, then the start of the  *)
(* next iteration of the outer loop (valueStart = 0, pos = 0).             *)
(***************************************************************************)
HoleBoundary ==
  /\ pc = "scan"
  /\ ~(pos < Len(strings[stringi + 1]))
  /\ stringi < Len(strings) - 1
  /\ holeStates' = Append(holeStates, state)
  /\ LET string == strings[stringi + 1]
         kind == BindingKind(state)
         g == getAttributeLiteralPart(heap, attributeValueParts, string,
                                      valueStart, attributeName)
     IN IF kind = "throw"
          THEN /\ pc' = "threw"
               /\ error' = UnexpectedBindingPosition(strings, stringi)
               /\ UNCHANGED <<stringi, pos, state, valueStart, heap, parts>>
          ELSE /\ parts' = [parts EXCEPT ![stringi + 1] =
                              CASE kind = KindNode -> NodeInstance
                                [] kind = KindData -> DataInstance
                                [] kind = KindComment -> CommentInstance
                                [] OTHER -> g.part]
               /\ heap' = IF kind = KindAttribute THEN g.heap ELSE heap
               /\ state' = IF state = BEFORE_ATTRIBUTE_VALUE
                             THEN ATTRIBUTE_VALUE_UNQUOTED ELSE state
               /\ stringi' = stringi + 1
               /\ valueStart' = 0
               /\ pos' = 0
               /\ UNCHANGED <<pc, error>>
  /\ UNCHANGED <<strings, nameStart, attributeName, attributeValueParts,
                 secondCall, finderVars>>

(***************************************************************************)
(* A slip at the end of the last segment: the switch on the state is run   *)
(* there too, and its default branch throws.                               *)
(***************************************************************************)
ReturnThroughSwitch ==
  /\ pc = "scan"
  /\ ~(pos < Len(strings[stringi + 1]))
  /\ stringi = Len(strings) - 1
  /\ IF BindingKind(state) = "throw"
       THEN /\ pc' = "threw"
            /\ error' = UnexpectedBindingPosition(strings, stringi)
            /\ UNCHANGED heap
       ELSE /\ pc' = "returned"
            /\ heap' = [heap EXCEPT ![attributeValueParts].frozen = TRUE]
            /\ UNCHANGED error
  /\ UNCHANGED <<strings, stringi, pos, state, nameStart, valueStart,
                 attributeName, attributeValueParts, parts, holeStates,
                 secondCall, finderVars>>

(***************************************************************************)
(* The end of the last segment: Object.freeze(attributeValueParts) and     *)
(* return parts.                                                           *)
(***************************************************************************)
Return ==
  /\ pc = "scan"
  /\ ~(pos < Len(strings[stringi + 1]))
  /\ stringi = Len(strings) - 1
  /\ heap' = [heap EXCEPT ![attributeValueParts].frozen = TRUE]
  /\ pc' = "returned"
  /\ UNCHANGED <<strings, stringi, pos, state, nameStart, valueStart,
                 attributeName, attributeValueParts, parts, error, holeStates,
                 secondCall, finderVars>>

(***************************************************************************)
(* parseHtmlLiteral(strings) called once more, after the first call        *)
(* returned or threw, instead of going on with the first result.           *)
(***************************************************************************)
CallAgain ==
  /\ pc \in {"returned", "threw"}
  /\ secondCall = NoCall
  /\ LET previous == [state |-> state, nameStart |-> nameStart,
                      valueStart |-> valueStart,
                      attributeName |-> attributeName,
                      attributeValueParts |-> attributeValueParts,
                      heap |-> heap]
         r == parseHtmlLiteral(strings, previous)
     IN secondCall' = Structure(r.threw, r.error, r.parts, r.heap)
  /\ UNCHANGED <<strings, pc, parserVars, finderVars>>

(***************************************************************************)
(* htmlString = renderToHtml(strings, parts), on the parts returned.       *)
(***************************************************************************)
Render ==
  /\ pc = "returned"
  /\ secondCall = NoCall
  /\ htmlString' = renderToHtml(strings, parts)
  /\ pc' = "rendered"
  /\ UNCHANGED <<strings, parserVars, secondCall, tree, whatToShow, indices,
                 foundNodes, roots, findCalls>>

(***************************************************************************)
(* root = document.createRange().createContextualFragment(htmlString)      *)
(***************************************************************************)
CreateFragment ==
  /\ pc = "rendered"
  /\ tree' = createContextualFragment(htmlString)
  /\ pc' = "fragment"
  /\ UNCHANGED <<strings, parserVars, secondCall, htmlString, whatToShow,
                 indices, foundNodes, roots, findCalls>>

(***************************************************************************)
(* finder = new LiteralNodesFinder(parts)                                  *)
(***************************************************************************)
NewFinder ==
  /\ pc = "fragment"
  /\ whatToShow' = whatToShowOf(parts)
  /\ indices' = NoIndices
  /\ pc' = "finder"
  /\ UNCHANGED <<strings, parserVars, secondCall, htmlString, tree, foundNodes,
                 roots, findCalls>>

\* The nodes of the tree under a root.
treeOf(root) == IF root = Foreign THEN ForeignTree ELSE tree

(***************************************************************************)
(* nodes = finder.find(root), for any of the roots.  The entries of the    *)
(* result are objects of the tree under root.                              *)
(***************************************************************************)
Find ==
  /\ pc = "finder"
  /\ findCalls < MaxFindCalls
  /\ \E root \in Roots :
       LET r == find(parts, heap, whatToShow, indices, treeOf(root))
       IN /\ foundNodes' = r.foundNodes
          /\ indices' = r.indices
          /\ roots' = IF findCalls = 0 THEN <<root>> ELSE <<roots[1], root>>
  /\ findCalls' = findCalls + 1
  /\ UNCHANGED <<strings, pc, parserVars, secondCall, htmlString, tree,
                 whatToShow>>

Next ==
  \/ ScanChar
  \/ HoleBoundary
  \/ Return
  \/ CallAgain
  \/ Render
  \/ CreateFragment
  \/ NewFinder
  \/ Find

Spec == Init /\ [][Next]_vars

(***************************************************************************)
(* One call of parseHtmlLiteral on its own, and one call followed by the   *)
(* rendering and the finder: the behaviours of Spec without the steps      *)
(* that follow, which leave the variables of the call alone.               *)
(***************************************************************************)
ParserNext ==
  \/ ScanChar
  \/ HoleBoundary
  \/ Return

ParserSpec == Init /\ [][ParserNext]_vars

FinderNext ==
  \/ ScanChar
  \/ HoleBoundary
  \/ Return
  \/ Render
  \/ CreateFragment
  \/ NewFinder
  \/ Find

FinderSpec == Init /\ [][FinderNext]_vars

(***************************************************************************)
(* Vocabulary of the properties.                                           *)
(***************************************************************************)
Returned == pc \notin {"scan", "threw"}
Rendered == pc \in {"rendered", "fragment", "finder"}
TreeReady == pc \in {"fragment", "finder"}
FirstFindDone == pc = "finder" /\ findCalls = 1 /\ roots[1] # Foreign

Holes == 1..Len(holeStates)

\* Hole i (1-based) was given a part: the scan did not throw at it.
Bound(i) == i \in Holes /\ ~(pc = "threw" /\ i = Len(holeStates))

AttributeHoles == {i \in 1..Len(parts) : parts[i].type = KindAttribute}

\* The holes whose parts reference the array r, and their number.
HolesOf(r) == {i \in AttributeHoles : parts[i].valueParts = r}
ReferencedArrays == {parts[i].valueParts : i \in AttributeHoles}

\* The j-th smallest element of a finite set of numbers, j from 1.
RECURSIVE Nth(_, _)
Nth(S, j) ==
  LET least == CHOOSE x \in S : \A y \in S : x <= y
  IN IF j = 1 THEN least ELSE Nth(S \ {least}, j - 1)

\* The holes of array r carry the indices 0, 1, ... in encounter order.
IndicesInOrder(r) ==
  \A j \in 1..Cardinality(HolesOf(r)) : parts[Nth(HolesOf(r), j)].index = j - 1

RECURSIVE Concat(_)
Concat(ss) == IF Len(ss) = 0 THEN <<>> ELSE ss[1] \o Concat(Tail(ss))

\* Where the placeholder of hole i (1-based) starts in htmlString, 0-based.
RECURSIVE PlaceholderOffset(_)
PlaceholderOffset(i) ==
  IF i = 1 THEN Len(strings[1])
  ELSE PlaceholderOffset(i - 1) + Len(Placeholder(parts[i - 1], i - 2))
       + Len(strings[i])

\* Every attribute object of the tree, and the attribute record of one.
AttributeObjects ==
  UNION { {AttrObject(n, a) : a \in 0..(Len(tree[n].attributes) - 1)} :
          n \in 1..Len(tree) }

AttrOf(o) == tree[o.node].attributes[o.attr + 1]

\* The attributes of the tree whose value text holds the placeholder of
\* hole i: the attribute occurrence the hole was written in.
AttributesWithHole(i) ==
  {o \in AttributeObjects :
     /\ AttrOf(o).from <= PlaceholderOffset(i)
     /\ PlaceholderOffset(i) < AttrOf(o).to}

(***************************************************************************)
(* C1.  A hole met in the DATA state gets the Node part, a hole met in the *)
(* BEFORE_ATTRIBUTE_NAME state gets the Data part.                         *)
(***************************************************************************)
C1_TextAndAttributeListHoles ==
  \A i \in Holes :
    /\ holeStates[i] = DATA => parts[i] = NodeInstance
    /\ holeStates[i] = BEFORE_ATTRIBUTE_NAME => parts[i] = DataInstance

C1_Witness ==
  /\ pc = "returned"
  /\ \E i \in Holes : holeStates[i] = DATA /\ parts[i] = NodeInstance
  /\ \E i \in Holes :
       holeStates[i] = BEFORE_ATTRIBUTE_NAME /\ parts[i] = DataInstance

(***************************************************************************)
(* C2.  As claimed: in every returned result, the k Attribute parts that   *)
(* share an array carry the indices 0..k-1 in encounter order and the      *)
(* array has k+1 elements.                                                 *)
(***************************************************************************)
C2_SharedArrayShape ==
  pc = "returned" =>
    \A r \in ReferencedArrays :
      /\ IndicesInOrder(r)
      /\ Len(heap[r].items) = Cardinality(HolesOf(r)) + 1

(***************************************************************************)
(* C2, amended.  The indices are 0..k-1 in encounter order; the array has  *)
(* k+1 elements when its attribute value ended before the end of the       *)
(* input, and k elements when it is still the open array at the return.    *)
(***************************************************************************)
C2_SharedArrayShapeAmended ==
  pc = "returned" =>
    \A r \in ReferencedArrays :
      /\ IndicesInOrder(r)
      /\ r # attributeValueParts
           => Len(heap[r].items) = Cardinality(HolesOf(r)) + 1
      /\ r = attributeValueParts
           => Len(heap[r].items) = Cardinality(HolesOf(r))

C2_Witness ==
  /\ pc = "returned"
  /\ \E r \in ReferencedArrays :
       /\ r # attributeValueParts
       /\ Cardinality(HolesOf(r)) = 2
       /\ Len(heap[r].items) = 3

(***************************************************************************)
(* C3.  As claimed: a hole met in any state of the comment family gets the *)
(* Comment part.                                                           *)
(***************************************************************************)
CommentFamily ==
  {COMMENT_START, COMMENT_START_DASH, COMMENT, COMMENT_LESS_THAN_SIGN,
   COMMENT_LESS_THAN_SIGN_BANG, COMMENT_LESS_THAN_SIGN_BANG_DASH,
   COMMENT_LESS_THAN_SIGN_BANG_DASH_DASH, COMMENT_END_DASH, COMMENT_END,
   COMMENT_END_BANG}

NoBindingStates ==
  {UNKNOWN, TAG_OPEN, END_TAG_OPEN, TAG_NAME, BOGUS_COMMENT,
   AFTER_ATTRIBUTE_NAME, ATTRIBUTE_NAME, AFTER_ATTRIBUTE_VALUE_QUOTED,
   SELF_CLOSING_START_TAG, MARKUP_DECLARATION_OPEN}

C4_UnexpectedBinding ==
  \A i \in Holes :
    holeStates[i] \in NoBindingStates =>
      /\ pc = "threw"
      /\ i = Len(holeStates)
      /\ error = Len(Concat(SubSeq(strings, 1, i)))

C4_Witness ==
  /\ pc = "threw"
  /\ Len(holeStates) = 2
  /\ holeStates[2] \in NoBindingStates
  /\ Len(strings[1]) > 0
  /\ Len(strings[2]) > 0
  /\ error = Len(strings[1]) + Len(strings[2])

(***************************************************************************)
(* C5.  As claimed: the attributeName of an Attribute part is the name of  *)
(* the attribute whose value holds the hole.                               *)
(***************************************************************************)
C5_AttributeNameOfHole ==
  TreeReady =>
    \A i \in AttributeHoles :
      \A o \in AttributesWithHole(i) : parts[i].attributeName = AttrOf(o).name

(***************************************************************************)
(* C6.  As claimed: the valueParts of an attribute occurrence, joined by   *)
(* "::", are the value text of that attribute in the rendered markup.      *)
(***************************************************************************)
C6_ValuePartsSpellValue ==
  TreeReady =>
    \A i \in AttributeHoles :
      \A o \in AttributesWithHole(i) :
        join(heap[parts[i].valueParts].items, <<":", ":">>) = AttrOf(o).value

(***************************************************************************)
(* C7.  A call that returns on M segments returns M-1 entries, each one a  *)
(* part.                                                                   *)
(***************************************************************************)
C7_OnePartPerHole ==
  Returned =>
    /\ Len(parts) = Len(strings) - 1
    /\ \A i \in 1..Len(parts) : parts[i] # Undefined

C7_Witness ==
  /\ pc = "returned"
  /\ Len(strings) = 3
  /\ Len(parts) = 2
  /\ parts[1] # Undefined
  /\ parts[2] # Undefined

(***************************************************************************)
(* C8.  The rendered markup is strings[0] m(0) strings[1] ... m(n-1)       *)
(* strings[n] for the n parts, m(i) being "::" for an Attribute part,      *)
(* "::i=0" for a Data part, "<!--::i-->" for a Node part and "::comment_i" *)
(* for a Comment part.                                                     *)
(***************************************************************************)
MarkerOfKind(kind, digit) ==
  CASE kind = KindAttribute -> <<":", ":">>
    [] kind = KindData -> <<":", ":", digit, "=", "0">>
    [] kind = KindNode -> <<"<", "!", "-", "-", ":", ":", digit, "-", "-", ">">>
    [] kind = KindComment ->
         <<":", ":", "c", "o", "m", "m", "e", "n", "t", "_", digit>>

\* The markup from segment i (1-based) to the end.
RECURSIVE MarkupFrom(_)
MarkupFrom(i) ==
  IF i > Len(parts) THEN strings[i]
  ELSE strings[i] \o MarkerOfKind(parts[i].type, DigitChars[i]) \o MarkupFrom(i + 1)

C8_RenderedMarkup ==
  Rendered => htmlString = MarkupFrom(1)

C8_Witness ==
  /\ pc = "rendered"
  /\ Len(parts) = 2
  /\ parts[1].type = KindAttribute
  /\ parts[2].type = KindData
  /\ htmlString = strings[1] \o <<":", ":">> \o strings[2]
                  \o <<":", ":", "1", "=", "0">> \o strings[3]

(***************************************************************************)
(* C9.  As claimed: the first find returns one entry per part; for a Node  *)
(* part i the comment whose data is "::i", for a Comment part i the first  *)
(* comment whose data contains "::comment_i", for a Data part i the        *)
(* attribute named "::i".                                                  *)
(***************************************************************************)
CommentsWith(stopIf) ==
  {n \in 1..Len(tree) :
     tree[n].nodeType = COMMENT_NODE /\ stopIfComment(stopIf, tree[n], 0)}

AttributesNamed(text) == {o \in AttributeObjects : AttrOf(o).name = text}

C9_FirstFindLocatesMarkers ==
  FirstFindDone =>
    /\ Len(foundNodes) = Len(parts)
    /\ \A i \in 1..Len(parts) :
         LET number == <<DigitChars[i]>>
             node == CommentsWith(DataIs(<<":", ":">> \o number))
             comment == CommentsWith(DataIncludes(
                          <<":", ":", "c", "o", "m", "m", "e", "n", "t", "_">>
                          \o number))
             data == AttributesNamed(<<":", ":">> \o number)
         IN /\ parts[i].type = KindNode /\ node # {}
                 => foundNodes[i] = CommentObject(Nth(node, 1))
            /\ parts[i].type = KindComment /\ comment # {}
                 => foundNodes[i] = CommentObject(Nth(comment, 1))
            /\ parts[i].type = KindData
                 => \A o \in data : foundNodes[i] = o

(***************************************************************************)
(* C10.  As claimed, in its own particular case: on the first find, two    *)
(* different attribute occurrences that each hold a hole (two Attribute    *)
(* parts with index 0 whose attributes are in the tree) are mapped to two  *)
(* different attribute objects.                                            *)
(***************************************************************************)
C10_DistinctOccurrencesDistinctObjects ==
  FirstFindDone =>
    \A i, j \in AttributeHoles :
      /\ i # j
      /\ parts[i].index = 0
      /\ parts[j].index = 0
      /\ AttributesWithHole(i) # {}
      /\ AttributesWithHole(j) # {}
      => foundNodes[i] # foundNodes[j]

(***************************************************************************)
(* Vocabulary of the properties about later find calls.                    *)
(***************************************************************************)
\* The root of the last find, and of the first.
LastRoot == roots[Len(roots)]
FirstRoot == roots[1]

\* Two roots carry the same placeholder shape: the fragment and its clone
\* do, and every tree does with itself.
SameShape(a, b) == (a = Foreign) <=> (b = Foreign)

\* What the content-matching path returns on the tree under root.
UncachedOn(root) ==
  find(parts, heap, whatToShow, NoIndices, treeOf(root)).foundNodes

\* A find after the first has returned.
LaterFindDone == pc = "finder" /\ findCalls >= 2

(***************************************************************************)
(* C11.  As claimed: a find after the first, on a tree of the same shape   *)
(* as the tree of the first call, returns the objects that the             *)
(* content-matching path returns on that tree.                             *)
(***************************************************************************)
C11_CachedMatchesUncached ==
  LaterFindDone /\ SameShape(FirstRoot, LastRoot) =>
    foundNodes = UncachedOn(LastRoot)

(***************************************************************************)
(* C12.  As claimed: when the tree given to find was not made from the     *)
(* finder's parts, every part whose marker is not in that tree gets the    *)
(* not-found value, on the first call and on every later call.             *)
(***************************************************************************)
\* No comment or attribute of the tree under root is what part i (1-based)
\* is searched by.
MarkerAbsent(root, i) ==
  LET t == treeOf(root)
      expected == ExpectedOf(parts, heap, i - 1)
  IN IF parts[i].type \in {KindNode, KindComment}
       THEN \A n \in 1..Len(t) :
              t[n].nodeType = COMMENT_NODE
                => ~stopIfComment(expected, t[n], 0)
       ELSE \A n \in 1..Len(t) :
              \A a \in 1..Len(t[n].attributes) :
                ~stopIfAttr(expected, t[n].attributes[a], 0)

C12_AbsentMarkerIsNotFound ==
  pc = "finder" /\ findCalls >= 1 /\ LastRoot = Foreign =>
    \A i \in 1..Len(parts) :
      MarkerAbsent(Foreign, i) => foundNodes[i] = NotFound

(***************************************************************************)
(* C13.  The indices field is undefined until the first find, which        *)
(* populates it; no step after that changes it, whatever root is given.    *)
(***************************************************************************)
C13_CacheWrittenOnce ==
  [][/\ findCalls' = findCalls => indices' = indices
     /\ findCalls' # findCalls /\ indices = NoIndices => indices' # NoIndices
     /\ indices # NoIndices => indices' = indices]_vars

C13_Witness ==
  /\ pc = "finder"
  /\ findCalls = 2
  /\ FirstRoot = Fragment
  /\ LastRoot = Foreign
  /\ indices # NoIndices
  /\ Len(indices[1]) = 2
  /\ indices[1] # findRefreshing(parts, heap, whatToShow, indices,
                                 ForeignTree).indices[1]

(***************************************************************************)
(* C14.  As claimed: after every find, first or later, an Attribute part   *)
(* with index > 0 has the same object as the part before it, which is the  *)
(* part at index - 1 of the same valueParts.                               *)
(***************************************************************************)
C14_HolesOfOneAttributeShareObject ==
  pc = "finder" /\ findCalls >= 1 =>
    \A i \in AttributeHoles :
      parts[i].index > 0 =>
        /\ parts[i - 1].type = KindAttribute
        /\ parts[i - 1].valueParts = parts[i].valueParts
        /\ parts[i - 1].index = parts[i].index - 1
        /\ foundNodes[i] = foundNodes[i - 1]

(***************************************************************************)
(* C15.  As claimed: every entry of a find result is a comment or an       *)
(* attribute of the tree under the root of that call (or not found), and   *)
(* when a call on the fragment is followed by a call on its clone, or the  *)
(* other way round, the two results hold the same structural positions.    *)
(* An object is identified by the root of its call and its position.       *)
(***************************************************************************)
\* o is the position of a comment or of an attribute in the tree under root.
IsObjectOf(root, o) ==
  LET t == treeOf(root)
  IN /\ o.node \in 1..Len(t)
     /\ \/ o.attr = -1 /\ t[o.node].nodeType = COMMENT_NODE
        \/ /\ t[o.node].nodeType = ELEMENT_NODE
           /\ o.attr \in 0..(Len(t[o.node].attributes) - 1)

C15_ClonesGiveLocalPeers ==
  [][findCalls' # findCalls =>
       /\ \A i \in 1..Len(foundNodes') :
            \/ foundNodes'[i] = NotFound
            \/ IsObjectOf(roots'[Len(roots')], foundNodes'[i])
       /\ /\ findCalls >= 1
          /\ {LastRoot, roots'[Len(roots')]} = {Fragment, Clone}
          => foundNodes' = foundNodes]_vars

(***************************************************************************)
(* C16.  Attribute parts share a valueParts array only if their holes lie  *)
(* in the same attribute occurrence: they are consecutive holes, the first *)
(* of them has index 0, and in the parsed markup they sit in the same      *)
(* attribute.  Outside an attribute value the open array is new: empty and *)
(* referenced by no part.  An attribute without holes leaves nothing: an   *)
(* array that no part references has no element.                           *)
(***************************************************************************)
AttributeValueStates ==
  {ATTRIBUTE_VALUE_DOUBLE_QUOTED, ATTRIBUTE_VALUE_SINGLE_QUOTED,
   ATTRIBUTE_VALUE_UNQUOTED}

C16_OneSequencePerOccurrence ==
  /\ \A r \in ReferencedArrays :
       /\ \A i, j \in HolesOf(r) : \A m \in i..j : m \in HolesOf(r)
       /\ parts[Nth(HolesOf(r), 1)].index = 0
  /\ TreeReady =>
       \A i, j \in AttributeHoles :
         parts[i].valueParts = parts[j].valueParts
           => AttributesWithHole(i) = AttributesWithHole(j)
  /\ pc = "scan" /\ state \notin AttributeValueStates =>
       /\ heap[attributeValueParts].items = <<>>
       /\ attributeValueParts \notin ReferencedArrays
  /\ \A r \in 1..Len(heap) :
       r \notin ReferencedArrays => heap[r].items = <<>>

\* Two attributes of the same name, each with a hole, and each with an
\* array of its own.
C16_Witness ==
  /\ pc = "fragment"
  /\ Len(parts) = 2
  /\ parts[1].type = KindAttribute
  /\ parts[2].type = KindAttribute
  /\ parts[1].attributeName = parts[2].attributeName
  /\ parts[1].valueParts # parts[2].valueParts
  /\ parts[2].index = 0
  /\ Len(heap[parts[1].valueParts].items) = 2

(***************************************************************************)
(* C17.  An array whose attribute value has ended (any array but the open  *)
(* one) is frozen and no step changes it; when the call has returned,      *)
(* every array referenced by a part is frozen, the open one included.      *)
(***************************************************************************)
C17_EndedSequencesStay ==
  [][/\ \A r \in 1..Len(heap) :
          r # attributeValueParts => heap[r].frozen /\ heap'[r] = heap[r]
     /\ Returned' => \A i \in AttributeHoles' : heap'[parts'[i].valueParts].frozen]_vars

\* Returned with an ended array and the open array, each referenced by a
\* part and frozen.
C17_Witness ==
  /\ pc = "returned"
  /\ Len(parts) = 2
  /\ parts[1].type = KindAttribute
  /\ parts[2].type = KindAttribute
  /\ parts[1].valueParts # attributeValueParts
  /\ parts[2].valueParts = attributeValueParts
  /\ Len(heap[parts[1].valueParts].items) = 2
  /\ heap[parts[1].valueParts].frozen
  /\ heap[parts[2].valueParts].frozen

(***************************************************************************)
(* C18.  A second call of parseHtmlLiteral on the same segments gives a    *)
(* result structurally equal to the first: the same kinds, names, array    *)
(* contents and indices, or the same error; what the first call left in    *)
(* its locals has no effect.                                               *)
(***************************************************************************)
C18_SecondCallSameResult ==
  secondCall # NoCall =>
    secondCall = Structure(pc = "threw", error, parts, heap)

\* A template whose first hole takes the attribute name as it stood at the
\* start of the call, while the first call ends with another name.
C18_Witness ==
  /\ secondCall # NoCall
  /\ pc = "returned"
  /\ Len(parts) = 2
  /\ parts[1].type = KindAttribute
  /\ parts[1].attributeName = <<>>
  /\ attributeName = <<"b">>
  /\ secondCall.parts[1].attributeName = <<>>

(***************************************************************************)
(* C19.  The end of the last segment is never an error, whatever the       *)
(* state: the call returns there with a part for every hole.  A call that  *)
(* threw did so at the end of a segment that a hole follows.               *)
(***************************************************************************)
AtEndOfSegment == pos = Len(strings[stringi + 1])

C19_EndOfInputReturns ==
  /\ pc = "threw" => stringi < Len(strings) - 1 /\ AtEndOfSegment
  /\ pc = "scan" /\ stringi = Len(strings) - 1 /\ AtEndOfSegment
       => ENABLED Return
  /\ pc = "returned" =>
       /\ error = -1
       /\ stringi = Len(strings) - 1 /\ AtEndOfSegment
       /\ \A i \in 1..(Len(strings) - 1) : parts[i] # Undefined

\* Returned inside an open attribute value that holds the last hole, after
\* a hole in text.
C19_Witness ==
  /\ pc = "returned"
  /\ state \in AttributeValueStates
  /\ Len(parts) = 2
  /\ parts[1] = NodeInstance
  /\ parts[2].type = KindAttribute
  /\ parts[2].valueParts = attributeValueParts

(***************************************************************************)
(* C20.  Every find comes to an end with one entry per part, each a found  *)
(* object of the tree or the not-found value, on the first call and on     *)
(* later calls, also when a replayed step count is negative or exceeds the *)
(* candidates left.                                                        *)
(***************************************************************************)
C20_FindEndsWithEntries ==
  pc = "finder" /\ findCalls >= 1 =>
    /\ Len(foundNodes) = Len(parts)
    /\ \A i \in 1..Len(parts) :
         foundNodes[i] = NotFound \/ IsObjectOf(LastRoot, foundNodes[i])

\* A later call on a tree with candidates, replaying two steps of -1.
C20_Witness ==
  /\ pc = "finder"
  /\ findCalls = 2
  /\ LastRoot = Foreign
  /\ indices = <<(<<-1, -2>>)>>
  /\ foundNodes = <<NotFound, NotFound>>

(***************************************************************************)
(* C21.  A hole met in the BEFORE_ATTRIBUTE_VALUE state gets an Attribute  *)
(* part of index 0 on an array no earlier part references, and the segment *)
(* after it is scanned as an unquoted value: the value stays open up to    *)
(* the first whitespace or ">", and the text up to there, a leading quote  *)
(* character included, is the array's second item.                         *)
(***************************************************************************)
\* The 0-based positions below upto of string that end an unquoted value.
UnquotedEnds(string, upto) ==
  {q \in 0..(upto - 1) : isSpaceCode(string[q + 1]) \/ string[q + 1] = GT}

C21_HoleBeforeValueIsUnquoted ==
  \A i \in Holes :
    holeStates[i] = BEFORE_ATTRIBUTE_VALUE =>
      LET string == strings[i + 1]
          upto == IF stringi = i THEN pos ELSE Len(string)
          ends == UnquotedEnds(string, upto)
          r == parts[i].valueParts
      IN /\ parts[i].type = KindAttribute
         /\ parts[i].index = 0
         /\ \A j \in 1..(i - 1) :
              parts[j].type = KindAttribute => parts[j].valueParts # r
         /\ IF ends # {}
              THEN /\ heap[r].frozen
                   /\ Len(heap[r].items) = 2
                   /\ heap[r].items[2] = slice(string, 0, Nth(ends, 1))
              ELSE IF stringi = i
                THEN /\ state = ATTRIBUTE_VALUE_UNQUOTED
                     /\ attributeValueParts = r
                     /\ Len(heap[r].items) = 1
                ELSE /\ holeStates[i + 1] = ATTRIBUTE_VALUE_UNQUOTED
                     /\ heap[r].items[2] = string

\* <a b=${x}'> has returned: the value of b is the hole followed by the
\* quote character.
C21_Witness ==
  /\ pc = "returned"
  /\ Len(parts) = 1
  /\ holeStates[1] = BEFORE_ATTRIBUTE_VALUE
  /\ parts[1].index = 0
  /\ heap[parts[1].valueParts].items = << <<>>, <<SQUOTE>> >>

(***************************************************************************)
(* C22.  A hole in the attribute list of a start tag, after whitespace and *)
(* outside any attribute name or value, gets the Data part whatever comes  *)
(* before it in the list.  At the end of a segment the scan is at such a   *)
(* place in two states: BEFORE_ATTRIBUTE_NAME (after the tag name, a       *)
(* value or another such hole) and AFTER_ATTRIBUTE_NAME, which the scan    *)
(* only stays in on the whitespace that follows an attribute name without  *)
(* a value.                                                                *)
(***************************************************************************)
AttributeListStates == {BEFORE_ATTRIBUTE_NAME, AFTER_ATTRIBUTE_NAME}

NamedStates ==
  {DATA, TAG_OPEN, END_TAG_OPEN, TAG_NAME, BOGUS_COMMENT,
   BEFORE_ATTRIBUTE_NAME, AFTER_ATTRIBUTE_NAME, ATTRIBUTE_NAME,
   BEFORE_ATTRIBUTE_VALUE, ATTRIBUTE_VALUE_DOUBLE_QUOTED,
   ATTRIBUTE_VALUE_SINGLE_QUOTED, ATTRIBUTE_VALUE_UNQUOTED,
   AFTER_ATTRIBUTE_VALUE_QUOTED, SELF_CLOSING_START_TAG, COMMENT_START,
   COMMENT_START_DASH, COMMENT, COMMENT_LESS_THAN_SIGN,
   COMMENT_LESS_THAN_SIGN_BANG, COMMENT_LESS_THAN_SIGN_BANG_DASH,
   COMMENT_LESS_THAN_SIGN_BANG_DASH_DASH, COMMENT_END_DASH, COMMENT_END,
   COMMENT_END_BANG, MARKUP_DECLARATION_OPEN}

\* The number of executions of the switch, from state st on the character
\* at p, up to and including the first that consumes it; more than fuel
\* when the chain has not ended after fuel executions.
RECURSIVE SwitchesToConsume(_, _, _, _)
SwitchesToConsume(st, string, p, fuel) ==
  LET r == ScanSwitch(st, string, p, 0, 0, <<>>)
  IN IF r.pos >= p \/ fuel = 0 THEN 1
     ELSE 1 + SwitchesToConsume(r.state, string, p, fuel - 1)

ChainLeft(st, string, p) ==
  SwitchesToConsume(st, string, p, Cardinality(NamedStates))

C23_ScanAdvances ==
  [][pc = "scan" /\ pc' = "scan" /\ stringi' = stringi
       => LET string == strings[stringi + 1]
          IN /\ ChainLeft(state, string, pos) <= Cardinality(NamedStates)
             /\ \/ pos' > pos
                \/ /\ pos' = pos
                   /\ ChainLeft(state', string, pos)
                        < ChainLeft(state, string, pos)]_vars

\* The character after a "/" in an attribute list has been handed from
\* SELF_CLOSING_START_TAG to BEFORE_ATTRIBUTE_NAME and on to ATTRIBUTE_NAME,
\* which is about to consume it.
C23_Witness ==
  /\ pc = "scan"
  /\ state = ATTRIBUTE_NAME
  /\ 1 <= pos /\ pos < Len(strings[stringi + 1])
  /\ strings[stringi + 1][pos] = SLASH
  /\ nameStart = pos
  /\ ChainLeft(state, strings[stringi + 1], pos) = 1

(***************************************************************************)
(* C24.  What a cached find returns depends on the shape of the tree (the  *)
(* comments and the elements with their attribute counts, in document      *)
(* order) and on the stored offsets only: the same call on the tree with   *)
(* every comment's data and every attribute's name and value replaced      *)
(* returns objects at the same places.                                     *)
(***************************************************************************)
\* The tree t with other contents and the same shape.
Relabelled(t) ==
  [n \in 1..Len(t) |->
     [nodeType |-> t[n].nodeType,
      name |-> t[n].name,
      data |-> IF t[n].nodeType = COMMENT_NODE THEN <<"z">> ELSE <<>>,
      attributes |->
        [j \in 1..Len(t[n].attributes) |->
           [name |-> <<"z">> \o NumberToString(j), value |-> <<"z">>,
            from |-> 0, to |-> 0]]]]

C24_CachedFindReadsShapeOnly ==
  LaterFindDone =>
    /\ Relabelled(treeOf(LastRoot)) # treeOf(LastRoot)
         \/ treeOf(LastRoot) = <<>>
    /\ findCached(parts, Relabelled(treeOf(LastRoot)), whatToShow,
                  indices[1], 0, NewWalker, 0, <<>>) = foundNodes

\* A cached find that returned a comment for a Node part and an attribute
\* for an Attribute part.
C24_Witness ==
  /\ LaterFindDone
  /\ LastRoot # Foreign
  /\ \E i \in 1..Len(parts) :
       /\ parts[i] = NodeInstance
       /\ foundNodes[i] # NotFound
  /\ \E j \in 1..Len(parts) :
       /\ parts[j].type = KindAttribute
       /\ foundNodes[j] # NotFound

(***************************************************************************)
(* C25.  After a first find that found every part, indices[i] is the       *)
(* number of comments or attributes that the searches for parts 0..i       *)
(* examined on their way to their matches, and the entries do not          *)
(* decrease with i: every replayed step count indices[i] - indices[i-1],   *)
(* and indices[0], is at least 0.                                          *)
(***************************************************************************)
FirstFindFoundAll ==
  /\ pc = "finder"
  /\ findCalls = 1
  /\ \A i \in 1..Len(parts) : foundNodes[i] # NotFound

\* Where the walker stands when the search for part i (1-based) starts: on
\* the object found for the part before, or on the root.
SearchStart(i) == IF i = 1 THEN NotFound ELSE foundNodes[i - 1]

\* The candidates the search for part i passes before its match: the
\* comments, or the attributes, from where the walker stands (that place
\* included) up to the object found (excluded), in document order.
ExaminedBeforeMatch(t, i) ==
  LET from == SearchStart(i)
      to == foundNodes[i]
      hint == IF from.attr >= 0 THEN from.attr ELSE 0
  IN IF parts[i].type \in {KindNode, KindComment}
       THEN Cardinality({n \in 1..Len(t) :
                           /\ t[n].nodeType = COMMENT_NODE
                           /\ from.node <= n
                           /\ n < to.node})
       ELSE Cardinality(
              UNION { {AttrObject(n, a) :
                         a \in {b \in 0..(Len(t[n].attributes) - 1) :
                                  /\ n = from.node => b >= hint
                                  /\ n = to.node => b < to.attr}} :
                      n \in {m \in 1..Len(t) :
                               from.node <= m /\ m <= to.node} })

\* The sum of ExaminedBeforeMatch over the parts 1..i that search: a part
\* with index > 0 takes over the entry before it.
RECURSIVE ExaminedUpTo(_, _)
ExaminedUpTo(t, i) ==
  IF i = 0 THEN 0
  ELSE ExaminedUpTo(t, i - 1)
       + (IF parts[i].type = KindAttribute /\ parts[i].index > 0
            THEN 0 ELSE ExaminedBeforeMatch(t, i))

C25_OffsetsCountExamined ==
  FirstFindFoundAll =>
    \A i \in 1..Len(parts) :
      /\ indices[1][i] = ExaminedUpTo(treeOf(FirstRoot), i)
      /\ indices[1][i] >= 0
      /\ i > 1 => indices[1][i] - indices[1][i - 1] >= 0

\* ${x}${y}: the search for the second comment starts on the first, which
\* it examines again and passes.
C25_Witness ==
  /\ FirstFindFoundAll
  /\ parts = <<NodeInstance, NodeInstance>>
  /\ foundNodes = <<CommentObject(1), CommentObject(2)>>
  /\ indices = <<(<<0, 1>>)>>

(***************************************************************************)
(* C26.  An Attribute part with index j > 0 at position i is preceded, at  *)
(* position i - 1, by an Attribute part on the same array with index       *)
(* j - 1; the first find copies for it the entry and the offset it has     *)
(* for position i - 1.                                                     *)
(***************************************************************************)
LaterHolesOfAttributes == {i \in AttributeHoles : parts[i].index > 0}

C26_LaterHoleFollowsItsPredecessor ==
  /\ \A i \in LaterHolesOfAttributes :
       /\ i - 1 \in AttributeHoles
       /\ parts[i - 1].valueParts = parts[i].valueParts
       /\ parts[i - 1].index = parts[i].index - 1
  /\ pc = "finder" /\ findCalls = 1 =>
       \A i \in LaterHolesOfAttributes :
         /\ foundNodes[i] = foundNodes[i - 1]
         /\ indices[1][i] = indices[1][i - 1]

\* The first find on a template with two holes in one attribute value: the
\* attribute found for the first hole is the entry of the second.
C26_Witness ==
  /\ pc = "finder"
  /\ findCalls = 1
  /\ Len(parts) = 2
  /\ parts[2].type = KindAttribute
  /\ parts[2].index = 1
  /\ foundNodes[1] # NotFound
  /\ foundNodes[2] = foundNodes[1]

(***************************************************************************)
(* C27.  As claimed: the state is at every step one of the 25 named        *)
(* states, UNKNOWN is never reached, and a call entered into an            *)
(* unrecognized state would halt instead of scanning on.                   *)
(***************************************************************************)
\* The rest of the call as it would run from here with an unrecognized
\* state: the switch has no case for it and takes its default branch.
FromUnrecognizedState ==
  parseLoop(strings,
    [state |-> UNKNOWN, nameStart |-> nameStart, valueStart |-> valueStart,
     attributeName |-> attributeName,
     attributeValueParts |-> attributeValueParts, heap |-> heap,
     parts |-> parts, stringi |-> stringi, pos |-> pos])

Scanning == pc = "scan" /\ pos < Len(strings[stringi + 1])

StateIsNamed ==
  /\ state \in NamedStates
  /\ state # UNKNOWN
  /\ \A i \in Holes : holeStates[i] \in NamedStates

KindNameIndex(part) ==
  IF part.type = KindAttribute
    THEN <<part.type, part.attributeName, part.index>>
    ELSE <<part.type>>

\* The call on the segments before hole i (1-based) and an empty segment
\* after it.
UpToHole(i) ==
  parseHtmlLiteral(Append(SubSeq(strings, 1, i), <<>>), NoCall)

C28_PartDependsOnEarlierSegments ==
  /\ pc = "returned" =>
       \A i \in 1..Len(parts) :
         /\ ~UpToHole(i).threw
         /\ KindNameIndex(UpToHole(i).parts[i]) = KindNameIndex(parts[i])
  /\ pc = "threw" =>
       /\ \A i \in 1..(Len(holeStates) - 1) :
            /\ ~UpToHole(i).threw
            /\ KindNameIndex(UpToHole(i).parts[i]) = KindNameIndex(parts[i])
       /\ UpToHole(Len(holeStates)).threw
       /\ UpToHole(Len(holeStates)).error = error

\* <a d="x" b="${x}" c='${y}'> has returned: the second part has the name
\* and index it has when nothing follows its hole, where the value of c
\* never ends.
C28_Witness ==
  /\ pc = "returned"
  /\ Len(parts) = 2
  /\ parts[2].type = KindAttribute
  /\ parts[2].attributeName = <<"c">>
  /\ heap[parts[2].valueParts].frozen
  /\ Len(heap[parts[2].valueParts].items) = 2
  /\ Len(UpToHole(2).heap[UpToHole(2).parts[2].valueParts].items) = 1

(***************************************************************************)
(* C29.  As claimed: the finder's filter shows comments exactly when some  *)
(* part is a Node or a Comment part, and elements exactly when some part   *)
(* is a Data or an Attribute part; and every find returns the objects that *)
(* the find of a finder whose walkers show both comments and elements      *)
(* returns.                                                                *)
(***************************************************************************)
ShowsComments(show) == (show \div SHOW_COMMENT) % 2 = 1
ShowsElements(show) == (show \div SHOW_ELEMENT) % 2 = 1

\* A finder whose walkers show comments and elements: what its first find,
\* on the first root, stores, and what its last find returns.
ShowBoth == SHOW_ELEMENT + SHOW_COMMENT

FirstShowingBoth ==
  find(parts, heap, ShowBoth, NoIndices, treeOf(FirstRoot))

LastShowingBoth ==
  IF findCalls = 1 THEN FirstShowingBoth
  ELSE find(parts, heap, ShowBoth, FirstShowingBoth.indices,
            treeOf(LastRoot))

C29_FilterKeepsResults ==
  pc = "finder" =>
    /\ ShowsComments(whatToShow)
         <=> \E i \in 1..Len(parts) : parts[i].type \in {KindNode, KindComment}
    /\ ShowsElements(whatToShow)
         <=> \E i \in 1..Len(parts) : parts[i].type \in {KindData, KindAttribute}
    /\ findCalls >= 1 => LastShowingBoth.foundNodes = foundNodes

====
